---------------------------- MODULE Spec2Model ----------------------------
(***************************************************************************)
(* The generic Graph engine of graphs/graphs.hpp and its variants          *)
(* (NullGraph, TrivialGraph, CompleteGraph, DirectedAcyclicGraph,          *)
(* BipartiteGraph) as a state machine over one graph object.               *)
(*                                                                         *)
(* A graph object is the record of Graph<T>'s data members:                *)
(*   vertices     set<T>                                                   *)
(*   adjList      map<T, vector<pair<T,int>>>, a function from its keys to *)
(*                sequences of <<neighbor, weight>>                        *)
(*   numVertices  int                                                      *)
(*   isDirected, isWeighted  bool                                          *)
(* T is int: vertex values are 0..MaxVertex, so that T() = 0 is a vertex.  *)
(***************************************************************************)
EXTENDS Integers, Sequences, FiniteSets, TLC

\* ------------------------------------------------------------------ bounds
\* vertex values of the general specifications are 0..MaxVertex
MaxVertex == 2
\* vertex values of the CompleteGraph specifications are 0..MaxMeshVertex
MaxMeshVertex == 3
\* edge weights are 1..MaxWeight
MaxWeight == 2
\* addEdge and join are followed while getNumEdges() stays within MaxEdges
MaxEdges == 2
\* the operand of join was built by at most MaxOtherEdges addEdge calls
MaxOtherEdges == 1

\* edges of a CyclicGraph
MaxCycleEdges == 3

Vertex == 0..MaxVertex
MeshVertex == 0..MaxMeshVertex
Weight == 1..MaxWeight

Kinds == {"Graph", "NullGraph", "TrivialGraph", "CompleteGraph",
          "DirectedAcyclicGraph", "BipartiteGraph"}

VARIABLES kind, isDirected, isWeighted, vertices, adjList, numVertices, last

vars == <<kind, isDirected, isWeighted, vertices, adjList, numVertices, last>>

\* ------------------------------------------------------------- containers
\* std::map::operator[]: the key is created with an empty vector when absent.
Subscript(adj, k) == IF k \in DOMAIN adj THEN adj ELSE adj @@ (k :> <<>>)

\* v.erase(remove_if(v.begin(), v.end(), [x](p){ return p.first == x; }), v.end())
EraseTarget(neighbors, x) == SelectSeq(neighbors, LAMBDA p : p[1] # x)

\* true when some pair of the vector names x
HasTarget(neighbors, x) == \E i \in 1..Len(neighbors) : neighbors[i][1] = x

\* the elements of an ordered container (set<T>, the keys of map<T,..>) in
\* iteration order
RECURSIVE InOrder(_)
InOrder(S) ==
    IF S = {} THEN <<>>
    ELSE LET m == CHOOSE x \in S : \A y \in S : x <= y
         IN  <<m>> \o InOrder(S \ {m})

\* Graph(bool directed, bool weighted)
Graph_new(directed, weighted) ==
    [vertices |-> {}, adjList |-> <<>>, numVertices |-> 0,
     isDirected |-> directed, isWeighted |-> weighted]

\* ------------------------------------------------------- Graph<T> mutation
\* addVertex without the test for an existing vertex
Graph_addVertex_unguarded(g, vertex) ==
    [g EXCEPT !.vertices = g.vertices \cup {vertex},
              !.adjList = [k \in DOMAIN g.adjList \cup {vertex} |->
                              IF k = vertex THEN <<>> ELSE g.adjList[k]],
              !.numVertices = g.numVertices + 1]

Graph_addVertex(g, vertex) ==
    IF vertex \notin g.vertices
    THEN [g EXCEPT !.vertices = g.vertices \cup {vertex},
                   !.adjList = [k \in DOMAIN g.adjList \cup {vertex} |->
                                   IF k = vertex THEN <<>> ELSE g.adjList[k]],
                   !.numVertices = g.numVertices + 1]
    ELSE g

Graph_addEdge(g, src, dest, weight) ==
    LET g2 == Graph_addVertex(Graph_addVertex(g, src), dest)
        a1 == Subscript(g2.adjList, src)
        a2 == [a1 EXCEPT ![src] = Append(@, <<dest, weight>>)]
        a3 == Subscript(a2, dest)
        a4 == IF ~g2.isDirected
              THEN [a3 EXCEPT ![dest] = Append(@, <<src, weight>>)]
              ELSE a2
    IN  [g2 EXCEPT !.adjList = a4]

\* deleteVertex without the loop that erases the edges pointing to the vertex
Graph_deleteVertex_keepIncoming(g, vertex) ==
    IF vertex \notin g.vertices
    THEN [g |-> g, ret |-> FALSE]
    ELSE [g |-> [g EXCEPT !.vertices = g.vertices \ {vertex},
                          !.numVertices = g.numVertices - 1,
                          !.adjList = [k \in DOMAIN g.adjList \ {vertex} |->
                                          g.adjList[k]]],
          ret |-> TRUE]

\* returns the graph and the bool the method returns
Graph_deleteVertex(g, vertex) ==
    IF vertex \notin g.vertices
    THEN [g |-> g, ret |-> FALSE]
    ELSE [g |-> [g EXCEPT !.vertices = g.vertices \ {vertex},
                          !.numVertices = g.numVertices - 1,
                          !.adjList = [k \in DOMAIN g.adjList \ {vertex} |->
                                          EraseTarget(g.adjList[k], vertex)]],
          ret |-> TRUE]

\* deleteEdge without the undirected branch that removes dest -> src
Graph_deleteEdge_forwardOnly(g, src, dest) ==
    IF src \notin g.vertices \/ dest \notin g.vertices
    THEN [g |-> g, ret |-> FALSE]
    ELSE LET a1 == Subscript(g.adjList, src)
         IN  [g |-> [g EXCEPT !.adjList =
                         [a1 EXCEPT ![src] = EraseTarget(@, dest)]],
              ret |-> HasTarget(a1[src], dest)]

Graph_deleteEdge(g, src, dest) ==
    IF src \notin g.vertices \/ dest \notin g.vertices
    THEN [g |-> g, ret |-> FALSE]
    ELSE LET a1 == Subscript(g.adjList, src)
             found == HasTarget(a1[src], dest)
             a2 == [a1 EXCEPT ![src] = EraseTarget(@, dest)]
             a3 == Subscript(a2, dest)
             a4 == IF ~g.isDirected
                   THEN [a3 EXCEPT ![dest] = EraseTarget(@, src)]
                   ELSE a2
         IN  [g |-> [g EXCEPT !.adjList = a4], ret |-> found]

\* ---------------------------------------------------------------- queries
getNumVertices(g) == g.numVertices

RECURSIVE SumSizes(_, _)
SumSizes(adj, keys) ==
    IF keys = {} THEN 0
    ELSE LET k == CHOOSE x \in keys : TRUE
         IN  Len(adj[k]) + SumSizes(adj, keys \ {k})

\* getNumEdges that returns the number of adjacency entries
getNumEdges_noHalving(g) == SumSizes(g.adjList, DOMAIN g.adjList)

getNumEdges(g) ==
    LET count == SumSizes(g.adjList, DOMAIN g.adjList)
    IN  IF g.isDirected THEN count ELSE count \div 2

\* getDegree throws for a vertex outside the vertex set; both branches of
\* the directed / undirected test return the size of the vertex's vector
getDegree(g, vertex) ==
    IF vertex \notin g.vertices
    THEN [raised |-> TRUE, ret |-> 0]
    ELSE [raised |-> FALSE,
          ret |-> IF vertex \in DOMAIN g.adjList
                  THEN Len(g.adjList[vertex]) ELSE 0]

\* the number of entries of the vectors of keys that name vertex
RECURSIVE CountTargets(_, _, _)
CountTargets(adj, keys, vertex) ==
    IF keys = {} THEN 0
    ELSE LET k == CHOOSE x \in keys : TRUE
         IN  Len(SelectSeq(adj[k], LAMBDA p : p[1] = vertex))
                 + CountTargets(adj, keys \ {k}, vertex)

\* getInDegree without the test that the vertex is in the graph
getInDegree_unchecked(g, vertex) ==
    IF ~g.isDirected THEN getDegree(g, vertex)
    ELSE [raised |-> FALSE,
          ret |-> CountTargets(g.adjList, DOMAIN g.adjList, vertex)]

getInDegree(g, vertex) ==
    IF vertex \notin g.vertices
    THEN [raised |-> TRUE, ret |-> 0]
    ELSE IF ~g.isDirected THEN getDegree(g, vertex)
    ELSE [raised |-> FALSE,
          ret |-> CountTargets(g.adjList, DOMAIN g.adjList, vertex)]

\* INT_MAX, the initial value of the minimum searches
INT_MAX == 2147483647

\* the loop of getMinDegree over the vertices not yet seen
RECURSIVE getMinDegree_loop(_, _, _)
getMinDegree_loop(g, rest, minDeg) ==
    IF rest = {} THEN minDeg
    ELSE LET v == CHOOSE x \in rest : \A y \in rest : x <= y
             deg == getDegree(g, v).ret
         IN  getMinDegree_loop(g, rest \ {v},
                               IF deg < minDeg THEN deg ELSE minDeg)

getMinDegree(g) ==
    IF g.vertices = {} THEN 0 ELSE getMinDegree_loop(g, g.vertices, INT_MAX)

RECURSIVE getMaxDegree_loop(_, _, _)
getMaxDegree_loop(g, rest, maxDeg) ==
    IF rest = {} THEN maxDeg
    ELSE LET v == CHOOSE x \in rest : \A y \in rest : x <= y
             deg == getDegree(g, v).ret
         IN  getMaxDegree_loop(g, rest \ {v},
                               IF deg > maxDeg THEN deg ELSE maxDeg)

\* getMaxDegree that stops after the first vertex
getMaxDegree_firstVertex(g) ==
    IF g.vertices = {} THEN 0
    ELSE getDegree(g, CHOOSE x \in g.vertices : \A y \in g.vertices : x <= y).ret

getMaxDegree(g) ==
    IF g.vertices = {} THEN 0 ELSE getMaxDegree_loop(g, g.vertices, 0)

\* adjList.find(k): the vector of k, nothing to iterate when k is no key
Find(adj, k) == IF k \in DOMAIN adj THEN adj[k] ELSE <<>>

\* -------------------------------------------------------------------- BFS
RECURSIVE BFS_neighborLoop(_, _, _, _)
\* the neighbor loop with new vertices pushed to the front of the queue
RECURSIVE BFS_neighborLoop_pushFront(_, _, _, _)
BFS_neighborLoop_pushFront(neighbors, i, visited, q) ==
    IF i > Len(neighbors) THEN [visited |-> visited, q |-> q]
    ELSE LET n == neighbors[i][1]
         IN  IF n \notin visited
             THEN BFS_neighborLoop_pushFront(neighbors, i + 1,
                                             visited \cup {n}, <<n>> \o q)
             ELSE BFS_neighborLoop_pushFront(neighbors, i + 1, visited, q)

\* the neighbor loop of BFS (and of isConnected): an unvisited neighbor is
\* marked visited and pushed to the back of the queue
BFS_neighborLoop(neighbors, i, visited, q) ==
    IF i > Len(neighbors) THEN [visited |-> visited, q |-> q]
    ELSE LET n == neighbors[i][1]
         IN  IF n \notin visited
             THEN BFS_neighborLoop(neighbors, i + 1,
                                   visited \cup {n}, Append(q, n))
             ELSE BFS_neighborLoop(neighbors, i + 1, visited, q)

\* for (int i = 0; i < levelSize; i++): pops one vertex of the level
RECURSIVE BFS_levelLoop(_, _, _, _)
\* the level loop that marks a vertex visited when it is popped, not when
\* it is pushed
RECURSIVE BFS_levelLoop_markOnPop(_, _, _, _)
BFS_levelLoop_markOnPop(g, i, levelSize, st) ==
    IF i >= levelSize THEN st
    ELSE LET current == Head(st.q)
             seen == st.visited \cup {current}
             fresh == SelectSeq(Find(g.adjList, current),
                                LAMBDA p : p[1] \notin seen)
         IN  BFS_levelLoop_markOnPop(g, i + 1, levelSize,
                 [visited |-> seen,
                  q |-> Tail(st.q) \o [k \in 1..Len(fresh) |-> fresh[k][1]],
                  traversal |-> Append(st.traversal, current)])

BFS_levelLoop(g, i, levelSize, st) ==
    IF i >= levelSize THEN st
    ELSE LET current == Head(st.q)
             r == BFS_neighborLoop(Find(g.adjList, current), 1,
                                   st.visited, Tail(st.q))
         IN  BFS_levelLoop(g, i + 1, levelSize,
                 [visited |-> r.visited, q |-> r.q,
                  traversal |-> Append(st.traversal, current)])

\* while (!q.empty())
RECURSIVE BFS_whileLoop(_, _)
BFS_whileLoop(g, st) ==
    IF st.q = <<>> THEN st
    ELSE BFS_whileLoop(g, BFS_levelLoop(g, 0, Len(st.q), st))

\* the vector BFS returns (the parent and level maps only feed the printout)
BFS(g, start) ==
    IF start \notin g.vertices
    THEN [raised |-> TRUE, traversal |-> <<>>]
    ELSE [raised |-> FALSE,
          traversal |-> BFS_whileLoop(g, [visited |-> {start}, q |-> <<start>>,
                                          traversal |-> <<>>]).traversal]

\* -------------------------------------------------------------------- DFS
\* DFSUtil leaves visited and traversal (passed by reference) to its caller
RECURSIVE DFSUtil(_, _, _, _)
RECURSIVE DFS_neighborLoop(_, _, _, _, _)
\* the neighbor loop run from the last neighbor to the first
RECURSIVE DFS_neighborLoop_reversed(_, _, _, _, _)
DFS_neighborLoop_reversed(g, neighbors, i, visited, traversal) ==
    IF i > Len(neighbors) THEN [visited |-> visited, traversal |-> traversal]
    ELSE LET n == neighbors[Len(neighbors) + 1 - i][1]
         IN  IF n \notin visited
             THEN LET r == DFSUtil(g, n, visited, traversal)
                  IN  DFS_neighborLoop_reversed(g, neighbors, i + 1,
                                                r.visited, r.traversal)
             ELSE DFS_neighborLoop_reversed(g, neighbors, i + 1,
                                            visited, traversal)

DFS_neighborLoop(g, neighbors, i, visited, traversal) ==
    IF i > Len(neighbors) THEN [visited |-> visited, traversal |-> traversal]
    ELSE LET n == neighbors[i][1]
         IN  IF n \notin visited
             THEN LET r == DFSUtil(g, n, visited, traversal)
                  IN  DFS_neighborLoop(g, neighbors, i + 1,
                                       r.visited, r.traversal)
             ELSE DFS_neighborLoop(g, neighbors, i + 1, visited, traversal)

DFSUtil(g, vertex, visited, traversal) ==
    DFS_neighborLoop(g, Find(g.adjList, vertex), 1,
                     visited \cup {vertex}, Append(traversal, vertex))

\* the vector DFS returns (times and parents only feed the printout)
DFS(g, start) ==
    IF start \notin g.vertices
    THEN [raised |-> TRUE, traversal |-> <<>>]
    ELSE [raised |-> FALSE,
          traversal |-> DFSUtil(g, start, {}, <<>>).traversal]

\* ------------------------------------------------------------ getDistance
\* the neighbor loop of getDistance: found is set by the early return
RECURSIVE getDistance_neighborLoop(_, _, _, _, _)
getDistance_neighborLoop(neighbors, i, current, dest, st) ==
    IF i > Len(neighbors) THEN st
    ELSE LET n == neighbors[i][1]
         IN  IF n \notin st.visited
             THEN LET d == st.distance[current] + 1
                      st2 == [visited |-> st.visited \cup {n},
                              distance |-> (n :> d) @@ st.distance,
                              q |-> Append(st.q, n),
                              found |-> n = dest, ret |-> d]
                  IN  IF n = dest THEN st2
                      ELSE getDistance_neighborLoop(neighbors, i + 1,
                                                    current, dest, st2)
             ELSE getDistance_neighborLoop(neighbors, i + 1, current, dest, st)

RECURSIVE getDistance_whileLoop(_, _, _)
getDistance_whileLoop(g, dest, st) ==
    IF st.q = <<>> THEN -1
    ELSE LET current == Head(st.q)
             r == getDistance_neighborLoop(Find(g.adjList, current), 1, current,
                                           dest, [st EXCEPT !.q = Tail(st.q)])
         IN  IF r.found THEN r.ret
             ELSE getDistance_whileLoop(g, dest, r)

\* getDistance that reports the distance of the vertex being expanded
getDistance_offByOne(g, src, dest) ==
    IF src \notin g.vertices \/ dest \notin g.vertices
    THEN [raised |-> TRUE, ret |-> 0]
    ELSE LET d == getDistance_whileLoop(
                      g, dest, [visited |-> {src}, distance |-> (src :> 0),
                                q |-> <<src>>, found |-> FALSE, ret |-> 0])
         IN  [raised |-> FALSE,
              ret |-> IF src = dest THEN 0 ELSE IF d > 0 THEN d - 1 ELSE d]

getDistance(g, src, dest) ==
    IF src \notin g.vertices \/ dest \notin g.vertices
    THEN [raised |-> TRUE, ret |-> 0]
    ELSE [raised |-> FALSE,
          ret |-> IF src = dest THEN 0
                  ELSE getDistance_whileLoop(
                           g, dest, [visited |-> {src}, distance |-> (src :> 0),
                                     q |-> <<src>>, found |-> FALSE, ret |-> 0])]

\* ------------------------------------------------- getDiameter, getRadius
\* the inner loop over dest (in set order) of both methods: the largest
\* distance from src so far, or -1 as soon as a distance is -1
RECURSIVE Eccentricity_loop(_, _, _, _, _)
Eccentricity_loop(g, src, order, i, ecc) ==
    IF i > Len(order) THEN ecc
    ELSE IF src = order[i] THEN Eccentricity_loop(g, src, order, i + 1, ecc)
    ELSE LET dist == getDistance(g, src, order[i]).ret
         IN  IF dist = -1 THEN -1
             ELSE Eccentricity_loop(g, src, order, i + 1,
                                    IF dist > ecc THEN dist ELSE ecc)

\* the loop over src of getDiameter; the inner loop continues the running
\* maximum
RECURSIVE getDiameter_loop(_, _, _, _)
getDiameter_loop(g, order, i, diameter) ==
    IF i > Len(order) THEN diameter
    ELSE LET d == Eccentricity_loop(g, order[i], order, 1, diameter)
         IN  IF d = -1 THEN -1 ELSE getDiameter_loop(g, order, i + 1, d)

getDiameter(g) ==
    IF g.vertices = {} THEN 0
    ELSE IF Cardinality(g.vertices) = 1 THEN 0
    ELSE getDiameter_loop(g, InOrder(g.vertices), 1, 0)

RECURSIVE getRadius_loop(_, _, _, _)
getRadius_loop(g, order, i, radius) ==
    IF i > Len(order) THEN radius
    ELSE LET ecc == Eccentricity_loop(g, order[i], order, 1, 0)
         IN  IF ecc = -1 THEN -1
             ELSE getRadius_loop(g, order, i + 1,
                                 IF ecc < radius THEN ecc ELSE radius)

\* getRadius that returns the eccentricity of the first vertex
getRadius_firstVertex(g) ==
    IF g.vertices = {} THEN 0
    ELSE IF Cardinality(g.vertices) = 1 THEN 0
    ELSE Eccentricity_loop(g, InOrder(g.vertices)[1], InOrder(g.vertices), 1, 0)

getRadius(g) ==
    IF g.vertices = {} THEN 0
    ELSE IF Cardinality(g.vertices) = 1 THEN 0
    ELSE getRadius_loop(g, InOrder(g.vertices), 1, INT_MAX)

\* --------------------------------------------------------------- getGirth
\* the search state of one start vertex: the distance map, the queue of
\* (vertex, parent) pairs, the running girth, the number of pushes and the
\* number of those that pushed a vertex already in the distance map
\* the loop that seeds the queue with the neighbors of start
RECURSIVE getGirth_seedLoop(_, _, _, _)
getGirth_seedLoop(neighbors, i, start, st) ==
    IF i > Len(neighbors) THEN st
    ELSE LET n == neighbors[i][1]
         IN  getGirth_seedLoop(neighbors, i + 1, start,
                 [st EXCEPT !.q = Append(@, <<n, start>>),
                            !.distance = (n :> 1) @@ @,
                            !.pushes = @ + 1,
                            !.stale = IF n \in DOMAIN st.distance
                                      THEN @ + 1 ELSE @])

RECURSIVE getGirth_neighborLoop(_, _, _, _, _)
getGirth_neighborLoop(neighbors, i, current, parent, st) ==
    IF i > Len(neighbors) THEN st
    ELSE LET n == neighbors[i][1]
         IN  IF n \notin DOMAIN st.distance
             THEN getGirth_neighborLoop(neighbors, i + 1, current, parent,
                      [st EXCEPT !.distance = (n :> st.distance[current] + 1) @@ @,
                                 !.q = Append(@, <<n, current>>),
                                 !.pushes = @ + 1])
             ELSE IF n # parent
             THEN LET cycleLength == st.distance[current] + st.distance[n] + 1
                  IN  getGirth_neighborLoop(neighbors, i + 1, current, parent,
                          [st EXCEPT !.girth = IF cycleLength < @
                                               THEN cycleLength ELSE @])
             ELSE getGirth_neighborLoop(neighbors, i + 1, current, parent, st)

RECURSIVE getGirth_whileLoop(_, _)
getGirth_whileLoop(g, st) ==
    IF st.q = <<>> THEN st
    ELSE LET current == Head(st.q)[1]
             parent == Head(st.q)[2]
         IN  getGirth_whileLoop(g,
                 getGirth_neighborLoop(Find(g.adjList, current), 1, current,
                                       parent, [st EXCEPT !.q = Tail(@)]))

\* the loop over start vertices; acc holds the running girth, the largest
\* number of pushes any one start needed and the largest number of them
\* that pushed a vertex already in the distance map
RECURSIVE getGirth_startLoop(_, _, _, _)
getGirth_startLoop(g, order, i, acc) ==
    IF i > Len(order) THEN acc
    ELSE LET start == order[i]
             seeded == getGirth_seedLoop(Find(g.adjList, start), 1, start,
                           [distance |-> (start :> 0), q |-> <<>>,
                            girth |-> acc.girth, pushes |-> 0, stale |-> 0])
             r == getGirth_whileLoop(g, seeded)
         IN  getGirth_startLoop(g, order, i + 1,
                 [girth |-> r.girth,
                  work |-> IF r.pushes > acc.work THEN r.pushes ELSE acc.work,
                  stale |-> IF r.stale > acc.stale THEN r.stale ELSE acc.stale])

getGirth(g) ==
    IF g.vertices = {} THEN -1
    ELSE LET girth == getGirth_startLoop(g, InOrder(g.vertices), 1,
                          [girth |-> INT_MAX, work |-> 0, stale |-> 0]).girth
         IN  IF girth = INT_MAX THEN -1 ELSE girth

\* the largest number of queue pushes of one search of getGirth
getGirth_pushes(g) ==
    getGirth_startLoop(g, InOrder(g.vertices), 1,
                       [girth |-> INT_MAX, work |-> 0, stale |-> 0]).work

\* the largest number of pushes of one search of getGirth that pushed a
\* vertex the search had already given a distance
getGirth_stalePushes(g) ==
    getGirth_startLoop(g, InOrder(g.vertices), 1,
                       [girth |-> INT_MAX, work |-> 0, stale |-> 0]).stale

\* ------------------------------------------------------- getCircumference
\* dfsLongestCycle leaves visited as it found it (it erases current before
\* it returns); the distance map is written and never read. Returns the
\* longest cycle found and the number of calls made.
RECURSIVE dfsLongestCycle(_, _, _, _, _)
RECURSIVE dfsLongestCycle_neighborLoop(_, _, _, _, _, _, _)
dfsLongestCycle_neighborLoop(g, start, neighbors, i, visited, dist, acc) ==
    IF i > Len(neighbors) THEN acc
    ELSE LET n == neighbors[i][1]
         IN  IF n = start /\ dist > 1
             THEN dfsLongestCycle_neighborLoop(g, start, neighbors, i + 1,
                      visited, dist,
                      [acc EXCEPT !.maxCycle = IF dist + 1 > @
                                               THEN dist + 1 ELSE @])
             ELSE IF n \notin visited
             THEN LET r == dfsLongestCycle(g, start, n, visited, dist + 1)
                  IN  dfsLongestCycle_neighborLoop(g, start, neighbors, i + 1,
                          visited, dist,
                          [maxCycle |-> IF r.maxCycle > acc.maxCycle
                                        THEN r.maxCycle ELSE acc.maxCycle,
                           calls |-> acc.calls + r.calls])
             ELSE dfsLongestCycle_neighborLoop(g, start, neighbors, i + 1,
                                               visited, dist, acc)

dfsLongestCycle(g, start, current, visited, dist) ==
    dfsLongestCycle_neighborLoop(g, start, Find(g.adjList, current), 1,
                                 visited \cup {current}, dist,
                                 [maxCycle |-> 0, calls |-> 1])

RECURSIVE getCircumference_startLoop(_, _, _, _, _)
getCircumference_startLoop(g, order, i, circumference, work) ==
    IF i > Len(order) THEN [circumference |-> circumference, work |-> work]
    ELSE LET r == dfsLongestCycle(g, order[i], order[i], {}, 0)
         IN  getCircumference_startLoop(g, order, i + 1,
                 IF r.maxCycle > circumference THEN r.maxCycle
                 ELSE circumference,
                 IF r.calls > work THEN r.calls ELSE work)

getCircumference(g) ==
    IF g.vertices = {} THEN -1
    ELSE LET circumference ==
                 getCircumference_startLoop(g, InOrder(g.vertices), 1,
                                            0, 0).circumference
         IN  IF circumference = 0 THEN -1 ELSE circumference

\* the largest number of dfsLongestCycle calls of one start vertex
getCircumference_calls(g) ==
    getCircumference_startLoop(g, InOrder(g.vertices), 1, 0, 0).work

\* ------------------------------------------------------------ isConnected
\* adjList.at(vertex) is applied to a key of the map
RECURSIVE isConnected_whileLoop(_, _, _)
isConnected_whileLoop(g, visited, q) ==
    IF q = <<>> THEN visited
    ELSE LET r == BFS_neighborLoop(g.adjList[Head(q)], 1, visited, Tail(q))
         IN  isConnected_whileLoop(g, r.visited, r.q)

\* isConnected that visits the start vertex and its own neighbors only
isConnected_oneLevel(g) ==
    IF g.vertices = {} THEN TRUE
    ELSE LET start == CHOOSE x \in g.vertices : \A y \in g.vertices : x <= y
             r == BFS_neighborLoop(g.adjList[start], 1, {start}, <<>>)
         IN  Cardinality(r.visited) = Cardinality(g.vertices)

isConnected(g) ==
    IF g.vertices = {} THEN TRUE
    ELSE LET start == CHOOSE x \in g.vertices : \A y \in g.vertices : x <= y
         IN  Cardinality(isConnected_whileLoop(g, {start}, <<start>>))
                 = Cardinality(g.vertices)


\* ------------------------------------------------ NullGraph / TrivialGraph
\* an operation that can throw returns the graph at the throw and raised
\* NullGraph without its override of addEdge
NullGraph_addEdge_inherited(g, src, dest, weight) ==
    [g |-> Graph_addEdge(g, src, dest, weight), raised |-> FALSE]

NullGraph_addEdge(g, src, dest, weight) == [g |-> g, raised |-> TRUE]

TrivialGraph_addEdge(g, src, dest, weight) == [g |-> g, raised |-> TRUE]

\* TrivialGraph(T vertex)
TrivialGraph_new(vertex) == Graph_addVertex(Graph_new(FALSE, FALSE), vertex)

\* ------------------------------------------------------------ CompleteGraph
\* the range-for over this->vertices runs while Graph::addEdge inserts
\* `vertex` into that same set: the iterator then moves on to the smallest
\* element greater than the current one in the set as it is now
RECURSIVE CompleteGraph_connectLoop(_, _, _)
CompleteGraph_connectLoop(g, v, vertex) ==
    LET g2 == Graph_addEdge(g, v, vertex, 1)
        rest == {x \in g2.vertices : x > v}
    IN  IF rest = {} THEN g2
        ELSE CompleteGraph_connectLoop(
                 g2, CHOOSE x \in rest : \A y \in rest : x <= y, vertex)

\* addVertex that connects the new vertex to the first existing vertex only
CompleteGraph_addVertex_firstOnly(g, vertex) ==
    IF vertex \in g.vertices THEN g
    ELSE LET connected ==
                 IF g.vertices = {} THEN g
                 ELSE Graph_addEdge(
                          g, CHOOSE x \in g.vertices : \A y \in g.vertices : x <= y,
                          vertex, 1)
         IN  Graph_addVertex(connected, vertex)

CompleteGraph_addVertex(g, vertex) ==
    IF vertex \in g.vertices THEN g
    ELSE LET connected ==
                 IF g.vertices = {} THEN g
                 ELSE CompleteGraph_connectLoop(
                          g, CHOOSE x \in g.vertices : \A y \in g.vertices : x <= y,
                          vertex)
         IN  Graph_addVertex(connected, vertex)

\* ----------------------------------------------------- DirectedAcyclicGraph
\* hasCycleDFS returns its bool and leaves visited / recStack (passed by
\* reference) as the next call sees them
RECURSIVE DAG_hasCycleDFS(_, _, _, _)
RECURSIVE DAG_neighborLoop(_, _, _, _, _)
DAG_neighborLoop(g, vertex, i, visited, recStack) ==
    LET neighbors == g.adjList[vertex]
    IN  IF i > Len(neighbors)
        THEN [found |-> FALSE, visited |-> visited,
              recStack |-> recStack \ {vertex}]
        ELSE LET n == neighbors[i][1]
             IN  IF n \notin visited
                 THEN LET r == DAG_hasCycleDFS(g, n, visited, recStack)
                      IN  IF r.found THEN r
                          ELSE DAG_neighborLoop(g, vertex, i + 1,
                                                r.visited, r.recStack)
                 ELSE IF n \in recStack
                 THEN [found |-> TRUE, visited |-> visited,
                       recStack |-> recStack]
                 ELSE DAG_neighborLoop(g, vertex, i + 1, visited, recStack)

DAG_hasCycleDFS(g, vertex, visited, recStack) ==
    DAG_neighborLoop(g, vertex, 1, visited \cup {vertex},
                     recStack \cup {vertex})

\* the loop of addEdge over this->vertices: TRUE when some root finds a cycle
RECURSIVE DAG_rootLoop(_, _, _, _, _)
DAG_rootLoop(g, order, i, visited, recStack) ==
    IF i > Len(order) THEN FALSE
    ELSE IF order[i] \in visited
    THEN DAG_rootLoop(g, order, i + 1, visited, recStack)
    ELSE LET r == DAG_hasCycleDFS(g, order[i], visited, recStack)
         IN  IF r.found THEN TRUE
             ELSE DAG_rootLoop(g, order, i + 1, r.visited, r.recStack)

\* addEdge that throws on a cycle without removing the edge
DAG_addEdge_noRollback(g, src, dest, weight) ==
    LET g2 == Graph_addEdge(g, src, dest, weight)
    IN  [g |-> g2,
         raised |-> DAG_rootLoop(g2, InOrder(g2.vertices), 1, {}, {})]

DAG_addEdge(g, src, dest, weight) ==
    LET g2 == Graph_addEdge(g, src, dest, weight)
    IN  IF DAG_rootLoop(g2, InOrder(g2.vertices), 1, {}, {})
        THEN LET a1 == Subscript(g2.adjList, src)
             IN  [g |-> [g2 EXCEPT !.adjList =
                             [a1 EXCEPT ![src] = EraseTarget(@, dest)]],
                  raised |-> TRUE]
        ELSE [g |-> g2, raised |-> FALSE]

\* ----------------------------------------------------------- BipartiteGraph
\* color is the map<T,int>: a function from the colored vertices to {0, 1}
RECURSIVE Bipartite_neighborLoop(_, _, _, _, _)
Bipartite_neighborLoop(g, vertex, i, color, q) ==
    LET neighbors == g.adjList[vertex]
    IN  IF i > Len(neighbors) THEN [ok |-> TRUE, color |-> color, q |-> q]
        ELSE LET n == neighbors[i][1]
             IN  IF n \notin DOMAIN color
                 THEN Bipartite_neighborLoop(
                          g, vertex, i + 1,
                          color @@ (n :> (1 - color[vertex])), Append(q, n))
                 ELSE IF color[n] = color[vertex]
                 THEN [ok |-> FALSE, color |-> color, q |-> q]
                 ELSE Bipartite_neighborLoop(g, vertex, i + 1, color, q)

RECURSIVE Bipartite_queueLoop(_, _, _)
Bipartite_queueLoop(g, color, q) ==
    IF q = <<>> THEN [ok |-> TRUE, color |-> color]
    ELSE LET r == Bipartite_neighborLoop(g, Head(q), 1, color, Tail(q))
         IN  IF ~r.ok THEN [ok |-> FALSE, color |-> r.color]
             ELSE Bipartite_queueLoop(g, r.color, r.q)

RECURSIVE Bipartite_startLoop(_, _, _, _)
Bipartite_startLoop(g, order, i, color) ==
    IF i > Len(order) THEN TRUE
    ELSE IF order[i] \in DOMAIN color
    THEN Bipartite_startLoop(g, order, i + 1, color)
    ELSE LET r == Bipartite_queueLoop(g, color @@ (order[i] :> 0),
                                      <<order[i]>>)
         IN  IF ~r.ok THEN FALSE
             ELSE Bipartite_startLoop(g, order, i + 1, r.color)

\* the check started from the first vertex only, other components unchecked
isBipartiteCheck_firstStart(g) ==
    IF g.vertices = {} THEN TRUE
    ELSE LET start == CHOOSE x \in g.vertices : \A y \in g.vertices : x <= y
         IN  Bipartite_queueLoop(g, start :> 0, <<start>>).ok

isBipartiteCheck(g) ==
    IF g.vertices = {} THEN TRUE
    ELSE Bipartite_startLoop(g, InOrder(g.vertices), 1, <<>>)

\* the rollback that removes src -> dest and leaves dest -> src
BipartiteGraph_addEdge_halfRollback(g, src, dest, weight) ==
    LET g2 == Graph_addEdge(g, src, dest, weight)
    IN  IF ~isBipartiteCheck(g2)
        THEN LET a1 == Subscript(g2.adjList, src)
             IN  [g |-> [g2 EXCEPT !.adjList =
                             [a1 EXCEPT ![src] = EraseTarget(@, dest)]],
                  raised |-> TRUE]
        ELSE [g |-> g2, raised |-> FALSE]

BipartiteGraph_addEdge(g, src, dest, weight) ==
    LET g2 == Graph_addEdge(g, src, dest, weight)
    IN  IF ~isBipartiteCheck(g2)
        THEN LET a1 == Subscript(g2.adjList, src)
                 a2 == [a1 EXCEPT ![src] = EraseTarget(@, dest)]
                 a3 == Subscript(a2, dest)
                 a4 == [a3 EXCEPT ![dest] = EraseTarget(@, src)]
             IN  [g |-> [g2 EXCEPT !.adjList = a4], raised |-> TRUE]
        ELSE [g |-> g2, raised |-> FALSE]

\* ------------------------------------------------------------ CyclicGraph
\* T(), the value hasCycle passes as the parent of every root
DefaultT == 0

\* hasCycleDFS returns its bool and leaves visited (a reference) updated;
\* adjList.at(vertex) is applied to a key of the map
RECURSIVE CyclicGraph_hasCycleDFS(_, _, _, _)
RECURSIVE CyclicGraph_neighborLoop(_, _, _, _, _)
CyclicGraph_neighborLoop(g, neighbors, i, vertex, st) ==
    IF i > Len(neighbors) THEN [ret |-> FALSE, visited |-> st.visited]
    ELSE LET n == neighbors[i][1]
         IN  IF n \notin st.visited
             THEN LET r == CyclicGraph_hasCycleDFS(g, n, st.visited, vertex)
                  IN  IF r.ret THEN r
                      ELSE CyclicGraph_neighborLoop(g, neighbors, i + 1, vertex,
                                                    [st EXCEPT !.visited = r.visited])
             ELSE IF n # st.parent
             THEN [ret |-> TRUE, visited |-> st.visited]
             ELSE CyclicGraph_neighborLoop(g, neighbors, i + 1, vertex, st)

CyclicGraph_hasCycleDFS(g, vertex, visited, parent) ==
    CyclicGraph_neighborLoop(g, g.adjList[vertex], 1, vertex,
                             [visited |-> visited \cup {vertex},
                              parent |-> parent])

RECURSIVE CyclicGraph_rootLoop(_, _, _, _)
CyclicGraph_rootLoop(g, order, i, visited) ==
    IF i > Len(order) THEN FALSE
    ELSE IF order[i] \in visited
    THEN CyclicGraph_rootLoop(g, order, i + 1, visited)
    ELSE LET r == CyclicGraph_hasCycleDFS(g, order[i], visited, DefaultT)
         IN  IF r.ret THEN TRUE
             ELSE CyclicGraph_rootLoop(g, order, i + 1, r.visited)

CyclicGraph_hasCycle(g) == CyclicGraph_rootLoop(g, InOrder(g.vertices), 1, {})

\* ------------------------------------------------------- dynamic dispatch
\* addEdge is virtual: the override of the object's class runs
addEdge(k, g, src, dest, weight) ==
    CASE k = "NullGraph" -> NullGraph_addEdge(g, src, dest, weight)
      [] k = "TrivialGraph" -> TrivialGraph_addEdge(g, src, dest, weight)
      [] k = "DirectedAcyclicGraph" -> DAG_addEdge(g, src, dest, weight)
      [] k = "BipartiteGraph" -> BipartiteGraph_addEdge(g, src, dest, weight)
      [] OTHER -> [g |-> Graph_addEdge(g, src, dest, weight), raised |-> FALSE]

\* addVertex is not virtual: a client holding the object by its own type
\* calls the class's addVertex, code inside Graph<T> calls Graph::addVertex
addVertex(k, g, vertex) ==
    IF k = "CompleteGraph" THEN CompleteGraph_addVertex(g, vertex)
    ELSE Graph_addVertex(g, vertex)

\* ------------------------------------------------------------------- join
RECURSIVE AddVertices(_, _, _)
AddVertices(g, order, i) ==
    IF i > Len(order) THEN g
    ELSE AddVertices(Graph_addVertex(g, order[i]), order, i + 1)

\* the pairs (src, neighbor) of other.adjList in the order the nested
\* loops of join visit them, as <<src, dest, weight>>
RECURSIVE EdgeList(_, _, _)
EdgeList(adj, keys, i) ==
    IF i > Len(keys) THEN <<>>
    ELSE [j \in 1..Len(adj[keys[i]]) |->
              <<keys[i], adj[keys[i]][j][1], adj[keys[i]][j][2]>>]
         \o EdgeList(adj, keys, i + 1)

RECURSIVE join_edgeLoop(_, _, _, _)
join_edgeLoop(k, g, edges, i) ==
    IF i > Len(edges) THEN [g |-> g, raised |-> FALSE]
    ELSE LET src == edges[i][1]
             dest == edges[i][2]
             exists == src \in DOMAIN g.adjList /\ HasTarget(g.adjList[src], dest)
         IN  IF ~exists /\ (g.isDirected \/ src < dest)
             THEN LET r == addEdge(k, g, src, dest, edges[i][3])
                  IN  IF r.raised THEN r
                      ELSE join_edgeLoop(k, r.g, edges, i + 1)
             ELSE join_edgeLoop(k, g, edges, i + 1)

\* join without the comparison of isWeighted
join_noWeightCheck(k, g, other) ==
    IF g.isDirected # other.isDirected
    THEN [g |-> g, raised |-> TRUE]
    ELSE join_edgeLoop(k, AddVertices(g, InOrder(other.vertices), 1),
                       EdgeList(other.adjList, InOrder(DOMAIN other.adjList), 1),
                       1)

join(k, g, other) ==
    IF g.isDirected # other.isDirected \/ g.isWeighted # other.isWeighted
    THEN [g |-> g, raised |-> TRUE]
    ELSE join_edgeLoop(k, AddVertices(g, InOrder(other.vertices), 1),
                       EdgeList(other.adjList, InOrder(DOMAIN other.adjList), 1),
                       1)

\* -------------------------------------------------------------- operator+
\* the copy loop of operator+: result.addEdge for the pairs with
\* isDirected || src < dest (result is a base Graph<T>)
RECURSIVE operatorPlus_copyLoop(_, _, _)
operatorPlus_copyLoop(result, edges, i) ==
    IF i > Len(edges) THEN result
    ELSE IF result.isDirected \/ edges[i][1] < edges[i][2]
    THEN operatorPlus_copyLoop(
             Graph_addEdge(result, edges[i][1], edges[i][2], edges[i][3]),
             edges, i + 1)
    ELSE operatorPlus_copyLoop(result, edges, i + 1)

\* g + other: the returned graph, or raised when result.join(other) throws
operatorPlus(g, other) ==
    LET result == operatorPlus_copyLoop(
                      AddVertices(Graph_new(g.isDirected, g.isWeighted),
                                  InOrder(g.vertices), 1),
                      EdgeList(g.adjList, InOrder(DOMAIN g.adjList), 1), 1)
    IN  join("Graph", result, other)

\* ------------------------------------------------------------ the object
This ==
    [vertices |-> vertices, adjList |-> adjList, numVertices |-> numVertices,
     isDirected |-> isDirected, isWeighted |-> isWeighted]

\* the call that ran last: its name, vertex arguments, whether it threw and
\* the bool it returned
Call(op, src, dest, raised, ret) ==
    [op |-> op, src |-> src, dest |-> dest, raised |-> raised, ret |-> ret]

Store(g) ==
    /\ vertices' = g.vertices
    /\ adjList' = g.adjList
    /\ numVertices' = g.numVertices
    /\ UNCHANGED <<kind, isDirected, isWeighted>>

\* the graphs handed to join: base graphs of either directedness and
\* weightedness built by at most MaxOtherEdges addEdge calls
RECURSIVE AddEdges(_, _, _)
AddEdges(g, es, i) ==
    IF i > Len(es) THEN g
    ELSE AddEdges(Graph_addEdge(g, es[i][1], es[i][2], 1), es, i + 1)

OtherGraphs ==
    { AddEdges(Graph_new(d, w), es, 1) :
        d \in BOOLEAN, w \in BOOLEAN,
        es \in UNION { [1..n -> Vertex \X Vertex] : n \in 0..MaxOtherEdges } }

\* ------------------------------------------------------------------- Init
InitKind(k) ==
    /\ kind = k
    /\ \E d \in BOOLEAN, w \in BOOLEAN, v \in Vertex :
         /\ k = "Graph" \/ ~w
         /\ k \in {"Graph", "CyclicGraph"} \/ d = (k = "DirectedAcyclicGraph")
         /\ k = "TrivialGraph" \/ v = 0
         /\ LET g == IF k = "TrivialGraph" THEN TrivialGraph_new(v)
                     ELSE Graph_new(d, w)
            IN  /\ vertices = g.vertices
                /\ adjList = g.adjList
                /\ numVertices = g.numVertices
                /\ isDirected = g.isDirected
                /\ isWeighted = g.isWeighted
    /\ last = Call("new", 0, 0, FALSE, FALSE)

Init == \E k \in Kinds : InitKind(k)

\* ---------------------------------------------------------------- actions
AddVertexOf(S) ==
    \E v \in S :
        /\ Store(addVertex(kind, This, v))
        /\ last' = Call("addVertex", v, v, FALSE, FALSE)

AddVertex == AddVertexOf(Vertex)

\* the callers of an unweighted graph leave weight at its default of 1
AddEdgeUpTo(maxEdges) ==
    \E src \in Vertex, dest \in Vertex,
       weight \in (IF isWeighted THEN Weight ELSE {1}) :
        LET r == addEdge(kind, This, src, dest, weight)
        IN  /\ getNumEdges(r.g) <= maxEdges
            /\ Store(r.g)
            /\ last' = Call("addEdge", src, dest, r.raised, FALSE)

AddEdge == AddEdgeUpTo(MaxEdges)

DeleteVertexOf(S) ==
    \E v \in S :
        LET r == Graph_deleteVertex(This, v)
        IN  /\ Store(r.g)
            /\ last' = Call("deleteVertex", v, v, FALSE, r.ret)

DeleteVertex == DeleteVertexOf(Vertex)

DeleteEdge ==
    \E src \in Vertex, dest \in Vertex :
        LET r == Graph_deleteEdge(This, src, dest)
        IN  /\ Store(r.g)
            /\ last' = Call("deleteEdge", src, dest, FALSE, r.ret)

Join ==
    \E other \in OtherGraphs :
        LET r == join(kind, This, other)
        IN  /\ getNumEdges(r.g) <= MaxEdges
            /\ Store(r.g)
            /\ last' = Call("join", 0, 0, r.raised, FALSE)

Next == AddVertex \/ AddEdge \/ DeleteVertex \/ DeleteEdge \/ Join

Spec == Init /\ [][Next]_vars

\* a base Graph<T> of either directedness and weightedness
SpecGraph == InitKind("Graph") /\ [][Next]_vars

\* the two variants that validate after insertion and roll back
SpecValidating ==
    /\ InitKind("DirectedAcyclicGraph") \/ InitKind("BipartiteGraph")
    /\ [][Next]_vars

\* the two variants that forbid edges
SpecEdgeless ==
    /\ InitKind("NullGraph") \/ InitKind("TrivialGraph")
    /\ [][Next]_vars

\* a CompleteGraph driven through addVertex and deleteVertex only
MeshAddVertex == AddVertexOf(MeshVertex)

MeshDeleteVertex == DeleteVertexOf(MeshVertex)

NextVertexOps == MeshAddVertex \/ MeshDeleteVertex

SpecComplete == InitKind("CompleteGraph") /\ [][NextVertexOps]_vars

\* a CompleteGraph built by addVertex calls alone
SpecCompleteBuild == InitKind("CompleteGraph") /\ [][MeshAddVertex]_vars

\* a CyclicGraph of either directedness, with room for a triangle
CyclicAddEdge == AddEdgeUpTo(MaxCycleEdges)

NextCyclic == AddVertex \/ CyclicAddEdge \/ DeleteVertex \/ DeleteEdge

SpecCyclic == InitKind("CyclicGraph") /\ [][NextCyclic]_vars

\* ======================================================================
\* Properties
\* ======================================================================
ThisNext ==
    [vertices |-> vertices', adjList |-> adjList', numVertices |-> numVertices',
     isDirected |-> isDirected', isWeighted |-> isWeighted']

\* the targets of v's adjacency entries
Successors(adj, v) == { adj[v][i][1] : i \in 1..Len(adj[v]) }

\* the adjacency entries as a set of pairs <<from, to>>
EdgePairs(adj) ==
    UNION { { <<v, n>> : n \in Successors(adj, v) } : v \in DOMAIN adj }

\* the vertices reached from the set S along zero or more pairs of E
RECURSIVE ReachedFrom(_, _)
ReachedFrom(E, S) ==
    LET more == S \cup { e[2] : e \in { x \in E : x[1] \in S } }
    IN  IF more = S THEN S ELSE ReachedFrom(E, more)

\* a vertex reaches itself along one or more pairs of E
HasDirectedCycle(E) == \E e \in E : e[1] \in ReachedFrom(E, {e[2]})

\* the vertices V split into two groups with every pair of E crossing
TwoColorable(V, E) ==
    \E A \in SUBSET V : \A e \in E : (e[1] \in A) # (e[2] \in A)

\* C1: on an undirected graph every adjacency entry (n, w) of v has its
\* mirror entry (v, w) in the adjacency list of n
C1_UndirectedSymmetric ==
    ~isDirected =>
        \A v \in DOMAIN adjList : \A i \in 1..Len(adjList[v]) :
            LET n == adjList[v][i][1]
                w == adjList[v][i][2]
            IN  /\ n \in DOMAIN adjList
                /\ \E j \in 1..Len(adjList[n]) : adjList[n][j] = <<v, w>>

\* C1 witness: a weighted undirected graph that still holds an edge of
\* weight 2 after deleteEdge removed another edge
C1_Witness ==
    /\ kind = "Graph" /\ ~isDirected /\ isWeighted
    /\ last.op = "deleteEdge" /\ last.ret
    /\ \E v \in DOMAIN adjList : \E i \in 1..Len(adjList[v]) : adjList[v][i][2] = 2

\* C2: storage is well-formed in every state of every variant: neighbors
\* are vertices, the adjacency keys are the vertex set, numVertices is its size
C2_WellFormed ==
    /\ \A v \in DOMAIN adjList : Successors(adjList, v) \subseteq vertices
    /\ DOMAIN adjList = vertices
    /\ getNumVertices(This) = Cardinality(vertices)

\* C2 witness: a raised addEdge(v, v) has left the new vertex v behind, with
\* an empty list, in a DAG that holds an edge
C2_Witness ==
    /\ kind = "DirectedAcyclicGraph"
    /\ last.op = "addEdge" /\ last.raised /\ last.src = last.dest
    /\ last.src \in vertices /\ adjList[last.src] = <<>>
    /\ \A v \in vertices : ~HasTarget(adjList[v], last.src)
    /\ getNumEdges(This) = 1

\* C3: a DirectedAcyclicGraph never holds a directed cycle or self-loop
C3_DagAcyclic ==
    kind = "DirectedAcyclicGraph" => ~HasDirectedCycle(EdgePairs(adjList))

\* C3 witness: the DAG holds a path of two edges and has just rejected an edge
C3_Witness ==
    /\ kind = "DirectedAcyclicGraph"
    /\ last.op = "addEdge" /\ last.raised
    /\ getNumEdges(This) = 2
    /\ \E v \in vertices : Cardinality(ReachedFrom(EdgePairs(adjList), {v})) = 3

\* C4: a BipartiteGraph is 2-colorable in every state
C4_BipartiteTwoColorable ==
    kind = "BipartiteGraph" => TwoColorable(vertices, EdgePairs(adjList))

\* C4 witness: the edge closing a triangle was rejected
C4_Witness ==
    /\ kind = "BipartiteGraph"
    /\ last.op = "addEdge" /\ last.raised /\ last.src # last.dest
    /\ getNumEdges(This) = 2
    /\ Cardinality(ReachedFrom(EdgePairs(adjList), {last.src})) = 3

\* the edge src -> dest would close a directed cycle in the graph g
WouldCloseCycle(g, src, dest) ==
    src = dest \/ src \in ReachedFrom(EdgePairs(g.adjList), {dest})

\* the undirected edge src - dest would leave the graph g not 2-colorable
WouldBreakBipartite(g, src, dest) ==
    ~TwoColorable(g.vertices \cup {src, dest},
                  EdgePairs(g.adjList) \cup {<<src, dest>>, <<dest, src>>})

\* C5: on a DAG or BipartiteGraph, addEdge raises exactly when the edge would
\* close a directed cycle (resp. break 2-colorability); a rejected call leaves
\* getNumEdges() as it was and an accepted call raises it by exactly 1
C5_AddEdgeStep ==
    (last'.op = "addEdge" /\ kind \in {"DirectedAcyclicGraph", "BipartiteGraph"})
    => /\ last'.raised =
            IF kind = "DirectedAcyclicGraph"
            THEN WouldCloseCycle(This, last'.src, last'.dest)
            ELSE WouldBreakBipartite(This, last'.src, last'.dest)
       /\ getNumEdges(ThisNext) =
            getNumEdges(This) + (IF last'.raised THEN 0 ELSE 1)

C5_RejectsExactlyViolations == [][C5_AddEdgeStep]_vars

\* C5 witness: an edge between two existing vertices was rejected with two
\* edges in the graph
C5_Witness ==
    /\ kind \in {"DirectedAcyclicGraph", "BipartiteGraph"}
    /\ last.op = "addEdge" /\ last.raised /\ last.src # last.dest
    /\ getNumEdges(This) = 2

\* C6: when addEdge of a DAG or BipartiteGraph raises, the vertex set,
\* getNumVertices() and every adjacency list are as before the call
C6_RaiseRestoresState ==
    [][(last'.op = "addEdge" /\ last'.raised
        /\ kind \in {"DirectedAcyclicGraph", "BipartiteGraph"})
       => /\ vertices' = vertices
          /\ getNumVertices(ThisNext) = getNumVertices(This)
          /\ adjList' = adjList]_vars

\* C7: a CompleteGraph built by n addVertex calls has n(n-1)/2 edges and
\* every vertex has degree n-1
C7_MeshCounts ==
    LET n == getNumVertices(This)
    IN  /\ 2 * getNumEdges(This) = n * (n - 1)
        /\ \A v \in vertices : getDegree(This, v).ret = n - 1

\* C8: in a CompleteGraph driven by addVertex and deleteVertex every two
\* distinct vertices are adjacent in both lists
C8_AllPairsConnected ==
    \A u \in vertices, v \in vertices :
        u # v => /\ HasTarget(adjList[u], v)
                 /\ HasTarget(adjList[v], u)

\* C8 witness: three vertices remain after a vertex was deleted
C8_Witness ==
    /\ last.op = "deleteVertex" /\ last.ret
    /\ getNumVertices(This) = 3

\* C9: on a NullGraph or TrivialGraph getNumEdges() is 0 in every state, and
\* every addEdge raises and leaves the graph as it was
C9_AddEdgeStep ==
    last'.op = "addEdge"
    => /\ last'.raised
       /\ vertices' = vertices
       /\ adjList' = adjList
       /\ numVertices' = numVertices

C9_EdgelessStaysEdgeless ==
    /\ [](getNumEdges(This) = 0)
    /\ [][C9_AddEdgeStep]_vars

\* C9 witness: addEdge between two vertices of a NullGraph has raised
C9_Witness ==
    /\ kind = "NullGraph"
    /\ last.op = "addEdge" /\ last.raised /\ last.src # last.dest
    /\ {last.src, last.dest} \subseteq vertices

\* C10: a TrivialGraph has exactly one vertex in every state
C10_TrivialOneVertex ==
    kind = "TrivialGraph" => getNumVertices(This) = 1

\* C11: on a base graph, directed or undirected, every addEdge call raises
\* getNumEdges() by exactly 1, self-loops and repeated pairs included; the
\* edges (1,2),(2,3),(3,4) give 4 vertices, 3 edges and degree 2 at vertex 2
C11_AddEdgeStep ==
    (last'.op = "addEdge" /\ kind = "Graph")
    => getNumEdges(ThisNext) = getNumEdges(This) + 1

\* the undirected graph with the edges (1,2), (2,3), (3,4)
PathExample ==
    AddEdges(Graph_new(FALSE, FALSE), << <<1, 2>>, <<2, 3>>, <<3, 4>> >>, 1)

C11_PathCounts ==
    /\ getNumVertices(PathExample) = 4
    /\ getNumEdges(PathExample) = 3
    /\ getDegree(PathExample, 2).ret = 2

C11_EdgeCountedOnce == [][C11_AddEdgeStep]_vars /\ []C11_PathCounts

\* C11 witness: an undirected graph holds a self-loop and a second edge that
\* repeats a pair
C11_Witness ==
    /\ kind = "Graph" /\ ~isDirected
    /\ last.op = "addEdge"
    /\ getNumEdges(This) = 2
    /\ \E v \in vertices :
         Len(SelectSeq(adjList[v], LAMBDA p : p[1] = last.dest)) >= 2

\* C12: addVertex(v) a second time changes nothing, and addVertex of an
\* existing vertex leaves the graph (its adjacency list included) as it is
C12_AddVertexIdempotent ==
    \A v \in Vertex :
        LET once == addVertex(kind, This, v)
        IN  /\ addVertex(kind, once, v) = once
            /\ Graph_addVertex(once, v) = once
            /\ v \in vertices => once = This

\* C12 witness: addVertex was called for a vertex that has adjacency entries
C12_Witness ==
    /\ kind = "Graph"
    /\ last.op = "addVertex"
    /\ last.src \in vertices
    /\ Len(adjList[last.src]) >= 1

\* addEdge(u, v, w) followed by deleteEdge(u, v) on the graph g
RoundTrip(g, u, v, w) == Graph_deleteEdge(Graph_addEdge(g, u, v, w), u, v).g

\* C13 as stated: on an undirected graph, for every two vertices u, v of the
\* graph and every weight w, addEdge(u, v, w) then deleteEdge(u, v) returns
\* the adjacency lists of u and v to their contents before the addEdge
C13_RoundTripAnyPair ==
    (kind = "Graph" /\ ~isDirected) =>
        \A u \in vertices, v \in vertices, w \in Weight :
            /\ RoundTrip(This, u, v, w).adjList[u] = adjList[u]
            /\ RoundTrip(This, u, v, w).adjList[v] = adjList[v]

\* C13 amended: the round trip restores the lists of u and v whenever the
\* list of u holds no entry for v before the addEdge
C13_RoundTripNewPair ==
    (kind = "Graph" /\ ~isDirected) =>
        \A u \in vertices, v \in vertices, w \in Weight :
            ~HasTarget(adjList[u], v) =>
                /\ RoundTrip(This, u, v, w).adjList[u] = adjList[u]
                /\ RoundTrip(This, u, v, w).adjList[v] = adjList[v]

\* C13 witness: two vertices that are not adjacent and both have entries
C13_Witness ==
    /\ kind = "Graph" /\ ~isDirected
    /\ \E u \in vertices, v \in vertices :
         /\ u # v
         /\ ~HasTarget(adjList[u], v)
         /\ adjList[u] # <<>> /\ adjList[v] # <<>>

\* the least element of a non-empty set of integers
MinOf(S) == CHOOSE x \in S : \A y \in S : x <= y

MaxOf(S) == CHOOSE x \in S : \A y \in S : x >= y

\* the elements of a sequence
Range(t) == { t[i] : i \in 1..Len(t) }

\* the least number of pairs of E on a path from the set frontier (at
\* distance d from the source, seen being everything within d) to dest;
\* -1 when there is no path
RECURSIVE HopsFrom(_, _, _, _, _)
HopsFrom(E, frontier, seen, dest, d) ==
    IF dest \in frontier THEN d
    ELSE LET next == { e[2] : e \in { x \in E : x[1] \in frontier } } \ seen
         IN  IF next = {} THEN -1
             ELSE HopsFrom(E, next, seen \cup next, dest, d + 1)

ShortestHops(adj, src, dest) == HopsFrom(EdgePairs(adj), {src}, {src}, dest, 0)

\* position of the first entry of the vector that names x
FirstEntry(neighbors, x) ==
    MinOf({ m \in 1..Len(neighbors) : neighbors[m][1] = x })

\* t is the breadth-first order from start: it lists the vertices reachable
\* from start once each, by non-decreasing hop distance, and a vertex comes
\* before another when its discoverer (the first listed vertex naming it)
\* comes first, or is the same and names it first
IsBreadthFirstOrder(adj, start, t) ==
    LET disc(x) == MinOf({ k \in 1..Len(t) : x \in Successors(adj, t[k]) })
        pos(x) == FirstEntry(adj[t[disc(x)]], x)
    IN  /\ Len(t) >= 1 /\ t[1] = start
        /\ Range(t) = ReachedFrom(EdgePairs(adj), {start})
        /\ Len(t) = Cardinality(Range(t))
        /\ \A i \in 1..Len(t), j \in 1..Len(t) :
             i < j => /\ ShortestHops(adj, start, t[i])
                           <= ShortestHops(adj, start, t[j])
                      /\ i >= 2 =>
                           \/ disc(t[i]) < disc(t[j])
                           \/ /\ disc(t[i]) = disc(t[j])
                              /\ pos(t[i]) < pos(t[j])

\* the directed graph {1:[2,3], 2:[4], 3:[]}
TraversalExample ==
    AddEdges(Graph_new(TRUE, FALSE), << <<1, 2>>, <<1, 3>>, <<2, 4>> >>, 1)

\* C14: BFS(start) begins with start, lists exactly the vertices reachable
\* from start once each, by non-decreasing hop distance and in discovery
\* order within a level; the example graph gives [1,2,3,4]
C14_BfsOrder ==
    /\ kind = "Graph" =>
         \A start \in vertices :
             /\ ~BFS(This, start).raised
             /\ IsBreadthFirstOrder(adjList, start, BFS(This, start).traversal)
    /\ BFS(TraversalExample, 1).traversal = <<1, 2, 3, 4>>

\* C14 witness: a directed graph whose vertex 0 has two neighbors on the same
\* level, listed in the order 2, 1
C14_Witness ==
    /\ kind = "Graph" /\ isDirected
    /\ 0 \in vertices
    /\ BFS(This, 0).traversal = <<0, 2, 1>>
    /\ Successors(adjList, 0) = {1, 2}

\* t is the depth-first discovery order from start: it lists the reachable
\* vertices once each, and every vertex after the first is the first
\* neighbor not yet listed of the most recently listed vertex that still
\* has a neighbor not yet listed (its discoverer, which precedes it)
IsDepthFirstOrder(adj, start, t) ==
    /\ Len(t) >= 1 /\ t[1] = start
    /\ Range(t) = ReachedFrom(EdgePairs(adj), {start})
    /\ Len(t) = Cardinality(Range(t))
    /\ \A i \in 2..Len(t) :
         LET seen == { t[k] : k \in 1..(i - 1) }
             open == { k \in 1..(i - 1) : ~(Successors(adj, t[k]) \subseteq seen) }
         IN  /\ open # {}
             /\ LET nb == adj[t[MaxOf(open)]]
                    m == MinOf({ x \in 1..Len(nb) : nb[x][1] \notin seen })
                IN  t[i] = nb[m][1]

\* C15: DFS(start) is the depth-first discovery order with neighbors taken
\* in adjacency order, it visits the same vertices as BFS(start), and the
\* example graph gives [1,2,4,3]
C15_DfsOrder ==
    /\ kind = "Graph" =>
         \A start \in vertices :
             /\ ~DFS(This, start).raised
             /\ IsDepthFirstOrder(adjList, start, DFS(This, start).traversal)
             /\ Range(DFS(This, start).traversal)
                    = Range(BFS(This, start).traversal)
    /\ DFS(TraversalExample, 1).traversal = <<1, 2, 4, 3>>

\* C15 witness: a vertex is discovered two levels deep, through a vertex
\* that is not the first in value order
C15_Witness ==
    /\ kind = "Graph"
    /\ \E start \in vertices :
         LET t == DFS(This, start).traversal
         IN  /\ Len(t) = 3
             /\ t[3] \notin Successors(adjList, start)
             /\ t[2] > t[3]

\* the undirected graph with the components {1,2,3} and {4,5}
ComponentsExample ==
    AddEdges(Graph_new(FALSE, FALSE), << <<1, 2>>, <<2, 3>>, <<4, 5>> >>, 1)

\* C16: getDistance(src, dest) is 0 for src = dest, else the least number of
\* adjacency entries on a path from src to dest, and -1 without a path; it is
\* symmetric on an undirected graph; the example gives -1 across components
C16_DistanceIsShortest ==
    /\ kind = "Graph" =>
         \A src \in vertices, dest \in vertices :
             /\ ~getDistance(This, src, dest).raised
             /\ getDistance(This, src, dest).ret
                    = ShortestHops(adjList, src, dest)
             /\ src = dest => getDistance(This, src, dest).ret = 0
             /\ ~isDirected => getDistance(This, src, dest).ret
                                   = getDistance(This, dest, src).ret
    /\ getDistance(ComponentsExample, 1, 4).ret = -1
    /\ getDistance(ComponentsExample, 1, 3).ret = 2

\* C16 witness: a directed graph with a pair at distance 2 one way and
\* unreachable the other way
C16_Witness ==
    /\ kind = "Graph" /\ isDirected
    /\ \E u \in vertices, v \in vertices :
         /\ getDistance(This, u, v).ret = 2
         /\ getDistance(This, v, u).ret = -1

\* C17: on an undirected graph isConnected() is true exactly when no pair of
\* vertices has getDistance -1; true for the empty graph and a single vertex,
\* false for the example with two components
C17_ConnectedIffAllPairs ==
    /\ (kind = "Graph" /\ ~isDirected) =>
         (isConnected(This) <=>
            \A u \in vertices, v \in vertices :
                getDistance(This, u, v).ret # -1)
    /\ isConnected(Graph_new(FALSE, FALSE))
    /\ isConnected(Graph_addVertex(Graph_new(FALSE, FALSE), 0))
    /\ ~isConnected(ComponentsExample)

\* C17 witness: a connected path of three vertices whose first vertex has
\* one neighbor
C17_Witness ==
    /\ kind = "Graph" /\ ~isDirected
    /\ vertices = {0, 1, 2}
    /\ isConnected(This)
    /\ Successors(adjList, 0) = {1}

\* the two graphs differ in directedness or in weightedness
FlagsDiffer(g, other) ==
    g.isDirected # other.isDirected \/ g.isWeighted # other.isWeighted

\* C18: join(other) and operator+(other) raise whenever directedness or
\* weightedness differ, and the receiver is then as it was before the call
C18_FlagMismatchRaises ==
    \A other \in OtherGraphs :
        FlagsDiffer(This, other) =>
            /\ join(kind, This, other) = [g |-> This, raised |-> TRUE]
            /\ operatorPlus(This, other).raised

\* C18 witness: a join raised on a base graph that holds an edge (a base
\* graph's join raises for no other reason than the flags)
C18_Witness ==
    /\ kind = "Graph"
    /\ last.op = "join" /\ last.raised
    /\ getNumEdges(This) >= 1

\* res has every vertex of a and of b and, for every adjacency entry u -> v
\* of a or of b, an entry u -> v
ContainsBoth(res, a, b) ==
    /\ (a.vertices \cup b.vertices) \subseteq res.vertices
    /\ (EdgePairs(a.adjList) \cup EdgePairs(b.adjList))
           \subseteq EdgePairs(res.adjList)

\* C19: after a successful a.join(b) on base graphs, and in a + b, the
\* result has every vertex and every adjacency entry u -> v of a and of b
C19_UnionContainsBoth ==
    kind = "Graph" =>
        \A other \in OtherGraphs :
            ~FlagsDiffer(This, other) =>
                /\ ~join(kind, This, other).raised
                /\ ContainsBoth(join(kind, This, other).g, This, other)
                /\ ~operatorPlus(This, other).raised
                /\ ContainsBoth(operatorPlus(This, other).g, This, other)

\* C20: a join that raises leaves the receiver's vertex set and adjacency
\* lists as they were before the call
C20_JoinStep ==
    (last'.op = "join" /\ last'.raised)
    => (vertices' = vertices /\ adjList' = adjList)

C20_RaisedJoinRestores == [][C20_JoinStep]_vars

\* values that can be asked about: the vertex values and one beyond them
Queried == 0..(MaxVertex + 1)

\* C21: getDegree, getInDegree, getDistance, BFS and DFS raise whenever an
\* argument vertex is not in the vertex set (for getDistance: either one)
C21_AbsentVertexRaises ==
    \A v \in Queried \ vertices :
        /\ getDegree(This, v).raised
        /\ getInDegree(This, v).raised
        /\ BFS(This, v).raised
        /\ DFS(This, v).raised
        /\ \A u \in Queried :
             getDistance(This, u, v).raised /\ getDistance(This, v, u).raised

\* C21 witness: a directed graph with edges has entries whose count the
\* queries would return, and a vertex value was deleted from it
C21_Witness ==
    /\ isDirected /\ getNumEdges(This) >= 1
    /\ last.op = "deleteVertex" /\ last.ret
    /\ last.src \notin vertices

\* C22: deleteVertex(v) returns false and changes nothing when v is absent;
\* otherwise it returns true, v leaves the vertex set and the adjacency map,
\* no entry targets v, the count drops by 1 and every other list keeps its
\* entries not naming v in their order
C22_DeleteVertexStep ==
    last'.op = "deleteVertex" =>
        LET v == last'.src
        IN  IF v \notin vertices
            THEN ~last'.ret /\ ThisNext = This
            ELSE /\ last'.ret
                 /\ v \notin vertices'
                 /\ vertices' = vertices \ {v}
                 /\ v \notin DOMAIN adjList'
                 /\ \A u \in DOMAIN adjList' : ~HasTarget(adjList'[u], v)
                 /\ getNumVertices(ThisNext) = getNumVertices(This) - 1
                 /\ \A u \in vertices \ {v} :
                      /\ u \in DOMAIN adjList'
                      /\ adjList'[u]
                           = SelectSeq(adjList[u], LAMBDA p : p[1] # v)

C22_DeleteVertexEffect == [][C22_DeleteVertexStep]_vars

\* C22 witness: a vertex was deleted from a graph that still has two
\* vertices and an edge between survivors
C22_Witness ==
    /\ last.op = "deleteVertex" /\ last.ret
    /\ getNumEdges(This) >= 1
    /\ numVertices >= 2

\* C23: deleteEdge(src, dest) returns true exactly when both endpoints are in
\* the graph and adjacency[src] held an entry for dest; false leaves the graph
\* unchanged; true leaves no entry for dest in adjacency[src], none for src in
\* adjacency[dest] when undirected, adjacency[dest] untouched when directed,
\* and removes no vertex
C23_DeleteEdgeStep ==
    last'.op = "deleteEdge" =>
        LET src == last'.src
            dest == last'.dest
        IN  /\ last'.ret <=> (/\ src \in vertices /\ dest \in vertices
                              /\ src \in DOMAIN adjList
                              /\ HasTarget(adjList[src], dest))
            /\ ~last'.ret => ThisNext = This
            /\ last'.ret =>
                 /\ ~HasTarget(adjList'[src], dest)
                 /\ ~isDirected => ~HasTarget(adjList'[dest], src)
                 /\ (isDirected /\ src # dest) => adjList'[dest] = adjList[dest]
                 /\ vertices' = vertices
                 /\ numVertices' = numVertices

C23_DeleteEdgeEffect == [][C23_DeleteEdgeStep]_vars

\* C23 witness: a directed edge was deleted while the reverse edge stays
C23_Witness ==
    /\ isDirected
    /\ last.op = "deleteEdge" /\ last.ret /\ last.src # last.dest
    /\ HasTarget(adjList[last.dest], last.src)

\* C26: with at least two vertices, directed or undirected, getDiameter()
\* and getRadius() return -1 exactly when isConnected() returns false
C26_MinusOneIffNotConnected ==
    Cardinality(vertices) >= 2 =>
        /\ getDiameter(This) = -1 <=> ~isConnected(This)
        /\ getRadius(This) = -1 <=> ~isConnected(This)

\* the ordered pairs of distinct vertices
DistinctPairs == { p \in vertices \X vertices : p[1] # p[2] }

\* the largest getDistance from u to another vertex
EccentricityOf(u) ==
    MaxOf({ getDistance(This, u, v).ret : v \in vertices \ {u} })

\* C27: getDiameter() is the maximum of getDistance over ordered pairs of
\* distinct vertices and getRadius() the minimum eccentricity; each is -1
\* exactly when some ordered pair has getDistance -1, and 0 with at most one
\* vertex; when they are not -1, getRadius() <= getDiameter()
C27_DiameterRadius ==
    /\ Cardinality(vertices) <= 1 =>
         getDiameter(This) = 0 /\ getRadius(This) = 0
    /\ Cardinality(vertices) >= 2 =>
         LET cut == \E p \in DistinctPairs :
                        getDistance(This, p[1], p[2]).ret = -1
         IN  /\ getDiameter(This) = -1 <=> cut
             /\ getRadius(This) = -1 <=> cut
             /\ ~cut =>
                  /\ getDiameter(This)
                       = MaxOf({ getDistance(This, p[1], p[2]).ret :
                                   p \in DistinctPairs })
                  /\ getRadius(This)
                       = MinOf({ EccentricityOf(u) : u \in vertices })
                  /\ getRadius(This) <= getDiameter(This)

\* C27 witness: a path of three vertices starting at the least one, radius 1
\* and diameter 2
C27_Witness ==
    /\ Cardinality(vertices) = 3
    /\ getDiameter(This) = 2 /\ getRadius(This) = 1
    /\ EccentricityOf(MinOf(vertices)) = 2

\* the number of entries of adj[u] that name v
EntryCount(adj, u, v) == Len(SelectSeq(adj[u], LAMBDA p : p[1] = v))

\* k distinct vertices, each with an entry for the next and the last with
\* an entry for the first
ClosedChain(adj, k) ==
    \E f \in [1..k -> DOMAIN adj] :
        /\ \A i \in 1..k, j \in 1..k : i # j => f[i] # f[j]
        /\ \A i \in 1..k : HasTarget(adj[f[i]], f[(i % k) + 1])

\* the lengths of the simple cycles of the graph: directed cycles on a
\* directed graph (a self-loop has length 1, a pair of opposite edges 2); on
\* an undirected graph a self-loop has length 1, two parallel edges length 2,
\* and longer cycles pass through three or more distinct vertices
CycleLengths(g) ==
    IF g.isDirected
    THEN { k \in 1..Cardinality(DOMAIN g.adjList) : ClosedChain(g.adjList, k) }
    ELSE { k \in 1..Cardinality(DOMAIN g.adjList) :
             \/ k = 1 /\ \E u \in DOMAIN g.adjList : HasTarget(g.adjList[u], u)
             \/ k = 2 /\ \E u \in DOMAIN g.adjList, v \in DOMAIN g.adjList :
                            u # v /\ EntryCount(g.adjList, u, v) >= 2
             \/ k >= 3 /\ ClosedChain(g.adjList, k) }

\* C24: getGirth() returns -1 exactly when the graph has no cycle and
\* otherwise the length of the shortest cycle, directed or undirected
C24_GirthIsShortestCycle ==
    getGirth(This) = IF CycleLengths(This) = {} THEN -1
                     ELSE MinOf(CycleLengths(This))

\* C25: getCircumference() returns -1 exactly when the graph has no cycle
\* and otherwise the length of the longest simple cycle; when neither is -1,
\* getGirth() <= getCircumference()
C25_CircumferenceIsLongestCycle ==
    /\ getCircumference(This) = IF CycleLengths(This) = {} THEN -1
                                ELSE MaxOf(CycleLengths(This))
    /\ (getGirth(This) # -1 /\ getCircumference(This) # -1)
           => getGirth(This) <= getCircumference(This)

\* C28: CyclicGraph::hasCycle() is true exactly when the graph has a cycle,
\* directed or undirected, whatever the vertex values; addEdge never raises
C28_HasCycleStep == last'.op = "addEdge" => ~last'.raised

C28_HasCycleExact ==
    /\ [](kind = "CyclicGraph" =>
            (CyclicGraph_hasCycle(This) <=> CycleLengths(This) # {}))
    /\ [][C28_HasCycleStep]_vars

RECURSIVE SumDegrees(_)
SumDegrees(S) ==
    IF S = {} THEN 0
    ELSE LET v == CHOOSE x \in S : TRUE
         IN  getDegree(This, v).ret + SumDegrees(S \ {v})

RECURSIVE SumInDegrees(_)
SumInDegrees(S) ==
    IF S = {} THEN 0
    ELSE LET v == CHOOSE x \in S : TRUE
         IN  getInDegree(This, v).ret + SumInDegrees(S \ {v})

\* C29: on an undirected graph getInDegree(v) = getDegree(v) and the degrees
\* sum to 2 * getNumEdges(); on a directed graph the out-degrees and the
\* in-degrees each sum to getNumEdges(); getMinDegree() <= getDegree(v) <=
\* getMaxDegree() for every vertex, both 0 on the empty graph
C29_DegreeBookkeeping ==
    /\ ~isDirected =>
         /\ \A v \in vertices :
              getInDegree(This, v).ret = getDegree(This, v).ret
         /\ SumDegrees(vertices) = 2 * getNumEdges(This)
    /\ isDirected =>
         /\ SumDegrees(vertices) = getNumEdges(This)
         /\ SumInDegrees(vertices) = getNumEdges(This)
    /\ \A v \in vertices :
         /\ ~getDegree(This, v).raised /\ ~getInDegree(This, v).raised
         /\ getMinDegree(This) <= getDegree(This, v).ret
         /\ getDegree(This, v).ret <= getMaxDegree(This)
    /\ vertices = {} => getMinDegree(This) = 0 /\ getMaxDegree(This) = 0

\* C29 witness: a directed graph where a vertex has in-degree 2 and
\* out-degree 0 and the least vertex does not have the largest degree
C29_Witness ==
    /\ isDirected
    /\ \E v \in vertices :
         getInDegree(This, v).ret = 2 /\ getDegree(This, v).ret = 0
    /\ getDegree(This, MinOf(vertices)).ret < getMaxDegree(This)

\* 1 + e + e^2 + ... + e^(n-1): the chains of at most n - 1 entries
RECURSIVE ChainBound(_, _)
ChainBound(e, n) == IF n <= 0 THEN 0 ELSE 1 + e * ChainBound(e, n - 1)

\* the number of adjacency entries of the graph
Entries(g) == SumSizes(g.adjList, DOMAIN g.adjList)

\* BFS and DFS visit no vertex twice, a distance is below the vertex count,
\* isConnected and getGirth return, and one search of getCircumference
\* returns after no more calls than there are chains of entries through
\* distinct vertices
SearchesReturn ==
    /\ \A start \in vertices :
         /\ Len(BFS(This, start).traversal) <= numVertices
         /\ Len(BFS(This, start).traversal)
              = Cardinality(Range(BFS(This, start).traversal))
         /\ Len(DFS(This, start).traversal) <= numVertices
         /\ Len(DFS(This, start).traversal)
              = Cardinality(Range(DFS(This, start).traversal))
    /\ \A src \in vertices, dest \in vertices :
         getDistance(This, src, dest).ret \in -1..(numVertices - 1)
    /\ isConnected(This) \in BOOLEAN
    /\ getGirth(This) \in {-1} \cup 1..(2 * numVertices)
    /\ getCircumference(This) \in {-1} \cup 3..numVertices
    /\ getCircumference_calls(This) <= ChainBound(Entries(This), numVertices)

=============================================================================
